---- MODULE Spec2Model ----
(***************************************************************************)
(* devenv-harness runner (pkgs/devenv-harness-runner/runner.py).           *)
(*                                                                         *)
(* Every harness invocation is an independent OS process ("run").  The     *)
(* runs share the slot directories under stateDir: per slot one lock file  *)
(* (flock) and one workspace directory.  Each run has its own artifacts    *)
(* directory (the run id holds the pid).                                   *)
(***************************************************************************)
EXTENDS Integers, Sequences, FiniteSets, TLC

\* ---------------------------------------------------------------- bounds
NumSlots == 2
MaxCmds == 2

\* pids of the harness processes: one more than the pool has slots, so that
\* a run can find every slot held by the others
Runs == 1..3
\* range(1, cfg.slots + 1)
Slots == 1..NumSlots
\* texts a caller may pass with --cmd
CmdTexts == {"c1", "c2"}
\* exit statuses an external command may return to run_cmd
ExitCodes == {0, 1, 2}
\* run_cmd did not return: create_subprocess_exec or the log write raised
Raised == -1
Outcomes == ExitCodes \cup {Raised}
\* SlotLock.fd is None / no slot yet
None == 0
\* exit status of the interpreter when main ends with an uncaught exception
ExcStatus == 1

VARIABLES
    pc,        \* pc[r]: position of run r in main / acquire_slot
    args,      \* args[r]: parsed command line (wait, keep, cmds)
    scan,      \* scan[r]: position of acquire_slot's for loop in this pass
    seen,      \* seen[r]: <<slot, holder>> of the busy probes of this pass
    slot,      \* slot[r]: slot returned by acquire_slot, or None
    fd,        \* fd[r]: slot whose lock file the run's SlotLock has open, or None
    idx,       \* idx[r]: index of the command loop
    result,    \* result[r]: how main leaves the try block / ends
    outDir,    \* outDir[r]: artifacts directory of the run
    trace,     \* trace[r]: external calls and lock release made by main, in order
    holders,   \* holders[s]: runs whose open lock file of slot s carries the flock
    lockFile,  \* lockFile[s]: slot s's directory and lock file exist
    work       \* work[s]: slot s's workspace directory

vars == <<pc, args, scan, seen, slot, fd, idx, result, outDir, trace,
          holders, lockFile, work>>

\* ------------------------------------------------------------- data
ArgSet == { [wait |-> w, keep |-> k, cmds |-> c] :
              w \in BOOLEAN, k \in BOOLEAN,
              c \in UNION { [1..n -> CmdTexts] : n \in 1..MaxCmds } }

NoArgs == [wait |-> TRUE, keep |-> FALSE, cmds |-> <<>>]
NoResult == [kind |-> "none", rc |-> 0]
Ret(rc) == [kind |-> "ret", rc |-> rc]
Exc == [kind |-> "exc", rc |-> ExcStatus]
NoOutDir == [exists |-> FALSE, logs |-> {}, ok |-> FALSE, failed |-> <<>>]
Absent == [exists |-> FALSE, content |-> {}]
\* trace entry: the call, the command index (the rm of the finally block: 1),
\* the exit status or Raised
Ev(op, i, rc) == <<op, i, rc>>

\* exit status of the process: SystemExit(main's return value), or 1 when
\* main raised
ExitStatus(r) == result[r].rc

Init ==
    /\ pc = [r \in Runs |-> "init"]
    /\ args = [r \in Runs |-> NoArgs]
    /\ scan = [r \in Runs |-> 1]
    /\ seen = [r \in Runs |-> {}]
    /\ slot = [r \in Runs |-> None]
    /\ fd = [r \in Runs |-> None]
    /\ idx = [r \in Runs |-> 0]
    /\ result = [r \in Runs |-> NoResult]
    /\ outDir = [r \in Runs |-> NoOutDir]
    /\ trace = [r \in Runs |-> <<>>]
    /\ holders = [s \in Slots |-> {}]
    /\ lockFile = [s \in Slots |-> FALSE]
    /\ work = [s \in Slots |-> Absent]

\* ------------------------------------------------------------- main, 151-161
ParseArgs(r, A) ==
    /\ pc[r] = "init"
    /\ \E a \in A : args' = [args EXCEPT ![r] = a]
    /\ pc' = [pc EXCEPT ![r] = "acquire"]
    /\ UNCHANGED <<scan, seen, slot, fd, idx, result, outDir, trace,
                   holders, lockFile, work>>

Append1(r, e) == [trace EXCEPT ![r] = Append(@, e)]

\* ------------------------------------------------------ SlotLock, 51-74
\* fcntl.flock(fd, LOCK_EX | LOCK_NB): granted when no other open file
\* description holds the lock, BlockingIOError otherwise
flock_always(s) == TRUE
flock_nb(s) == holders[s] = {}

\* ------------------------------------------------- acquire_slot, 134-143
\* slot probed at position i of "for slot in range(1, cfg.slots + 1)"
ScanSlotDown(i) == NumSlots + 1 - i
ScanSlot(i) == i

\* after a pass that found every slot busy: raise, or sleep and rescan
AfterPassSleep(w) == "sleep"
AfterPassRaise(w) == "done"
AfterPass(w) == IF w THEN "sleep" ELSE "done"

\* lk.try_lock() returns True: acquire_slot returns (slot, lk)
TryLockOk(r) ==
    /\ pc[r] = "acquire"
    /\ LET s == ScanSlot(scan[r]) IN
        /\ flock_nb(s)
        /\ lockFile' = [lockFile EXCEPT ![s] = TRUE]
        /\ holders' = [holders EXCEPT ![s] = @ \cup {r}]
        /\ fd' = [fd EXCEPT ![r] = s]
        /\ slot' = [slot EXCEPT ![r] = s]
        /\ trace' = Append1(r, Ev("acquire", s, 0))
    /\ pc' = [pc EXCEPT ![r] = "mkout"]
    /\ UNCHANGED <<args, scan, seen, idx, result, outDir, work>>

\* the handle try_lock leaves after BlockingIOError on slot s (63-65):
\* self.fd.close(); self.fd = None
BusyHandleKept(s) == s
BusyHandle(s) == None

\* lk.try_lock() returns False: the file is closed again, the loop goes on
TryLockBusy(r) ==
    /\ pc[r] = "acquire"
    /\ LET s == ScanSlot(scan[r]) IN
        /\ ~flock_nb(s)
        /\ lockFile' = [lockFile EXCEPT ![s] = TRUE]
        /\ fd' = [fd EXCEPT ![r] = BusyHandle(s)]
        /\ seen' = [seen EXCEPT ![r] = @ \cup ({s} \X holders[s])]
    /\ IF scan[r] < NumSlots
         THEN /\ scan' = [scan EXCEPT ![r] = @ + 1]
              /\ UNCHANGED <<pc, result>>
         ELSE /\ pc' = [pc EXCEPT ![r] = AfterPass(args[r].wait)]
              /\ result' = [result EXCEPT ![r] =
                              IF AfterPass(args[r].wait) = "done" THEN Exc ELSE @]
              /\ UNCHANGED scan
    /\ UNCHANGED <<args, slot, idx, outDir, trace, holders, work>>

\* await asyncio.sleep(0.2), then the next pass of "while True"
AfterSleepStuck == "sleep"
AfterSleep == "acquire"
Sleep(r) ==
    /\ pc[r] = "sleep"
    /\ pc' = [pc EXCEPT ![r] = AfterSleep]
    /\ scan' = [scan EXCEPT ![r] = 1]
    /\ seen' = [seen EXCEPT ![r] = {}]
    /\ UNCHANGED <<args, slot, fd, idx, result, outDir, trace, holders,
                   lockFile, work>>

\* SlotLock.unlock: the lock table after run r released fd f
ReleasedByPath(r, f) ==
    IF slot[r] = None THEN holders ELSE [holders EXCEPT ![slot[r]] = {}]
Released(r, f) ==
    IF f = None THEN holders ELSE [holders EXCEPT ![f] = @ \ {r}]

\* ------------------------------------------------------- run_cmd, 77-96
\* effect of "rm -rf work_dir" ending with outcome o
RmEffect(w, o) == IF o = 0 THEN Absent ELSE w

\* effects of rsync -a --delete from the project into the workspace
RsyncEffects(r, w, o) ==
    IF o = 0 THEN {[exists |-> TRUE, content |-> {r}]}
    ELSE IF o = Raised THEN {w}
    ELSE {w, [exists |-> TRUE, content |-> w.content \cup {r}]}

\* ------------------------------------------------------- main, 163-198
\* out_dir.mkdir(parents=True, exist_ok=True), before the try block: the
\* directory is made, or mkdir raises (the artifacts root cannot be written)
MkOutDir(r) ==
    /\ pc[r] = "mkout"
    /\ \E o \in {0, Raised} :
        /\ outDir' = [outDir EXCEPT ![r].exists = (o = 0)]
        /\ pc' = [pc EXCEPT ![r] = IF o = 0 THEN "prep" ELSE "done"]
        /\ result' = [result EXCEPT ![r] = IF o = 0 THEN @ ELSE Exc]
        /\ trace' = Append1(r, Ev("mkout", 0, o))
    /\ UNCHANGED <<args, scan, seen, slot, fd, idx, holders, lockFile, work>>

\* slot_paths, 43-48 (called at 164): the workspace a run works in is the
\* one of the slot acquire_slot returned
WorkOfFirst(r) == 1
WorkOf(r) == slot[r]

\* if work_dir.exists(): rm -rf work_dir (exit status ignored)
WorkspaceRm(r, O) ==
    /\ pc[r] = "prep"
    /\ LET s == WorkOf(r) IN
        IF work[s].exists
          THEN \E o \in O :
                /\ work' = [work EXCEPT ![s] = RmEffect(@, o)]
                /\ trace' = Append1(r, Ev("rm", 0, o))
                /\ pc' = [pc EXCEPT ![r] = IF o = Raised THEN "td_stop" ELSE "mkdir"]
                /\ result' = [result EXCEPT ![r] = IF o = Raised THEN Exc ELSE @]
          ELSE /\ pc' = [pc EXCEPT ![r] = "mkdir"]
               /\ UNCHANGED <<work, trace, result>>
    /\ UNCHANGED <<args, scan, seen, slot, fd, idx, outDir, holders, lockFile>>

\* work_dir.mkdir(parents=True, exist_ok=True)
WorkspaceMkdir(r) ==
    /\ pc[r] = "mkdir"
    /\ work' = [work EXCEPT ![WorkOf(r)].exists = TRUE]
    /\ trace' = Append1(r, Ev("mkdir", 0, 0))
    /\ pc' = [pc EXCEPT ![r] = "sync"]
    /\ UNCHANGED <<args, scan, seen, slot, fd, idx, result, outDir,
                   holders, lockFile>>

\* rsync_project, 99-115: RuntimeError when rsync's exit status is not 0
\* "if code != 0: raise RuntimeError(...)" of rsync_project and container_start:
\* the stage after a checked call, next on exit status 0 and the finally block
\* otherwise
CheckedIgnored(o, next) == next
Checked(o, next) == IF o = 0 THEN next ELSE "td_stop"

Rsync(r, O) ==
    /\ pc[r] = "sync"
    /\ \E o \in O :
        /\ \E w \in RsyncEffects(r, work[WorkOf(r)], o) :
              work' = [work EXCEPT ![WorkOf(r)] = w]
        /\ trace' = Append1(r, Ev("rsync", 0, o))
        /\ pc' = [pc EXCEPT ![r] = Checked(o, "start")]
        /\ result' = [result EXCEPT ![r] = IF o = 0 THEN @ ELSE Exc]
    /\ UNCHANGED <<args, scan, seen, slot, fd, idx, outDir, holders, lockFile>>

\* container_start, 118-121: RuntimeError when the exit status is not 0
ContainerStart(r, O) ==
    /\ pc[r] = "start"
    /\ \E o \in O :
        /\ trace' = Append1(r, Ev("start", 0, o))
        /\ pc' = [pc EXCEPT ![r] = Checked(o, "cmd")]
        /\ result' = [result EXCEPT ![r] = IF o = 0 THEN @ ELSE Exc]
        /\ idx' = [idx EXCEPT ![r] = IF Checked(o, "cmd") = "cmd" THEN 1 ELSE @]
    /\ UNCHANGED <<args, scan, seen, slot, fd, outDir, holders, lockFile, work>>

\* where the command loop goes after command i of n returned rc (185-189)
LoopNextNoBreak(rc, i, n) == IF i < n THEN "cmd" ELSE "ok"
LoopNext(rc, i, n) == IF rc # 0 THEN "td_stop" ELSE IF i < n THEN "cmd" ELSE "ok"

\* one iteration of "for idx, cmd in enumerate(args.cmd, start=1)", 182-189
ContainerRun(r, O) ==
    /\ pc[r] = "cmd"
    /\ LET i == idx[r]
           n == Len(args[r].cmds) IN
       \E o \in O, out \in BOOLEAN :
        /\ trace' = Append1(r, Ev("run", i, o))
        /\ IF o = Raised
             THEN /\ outDir' = [outDir EXCEPT ![r].logs = IF out THEN @ \cup {i} ELSE @]
                  /\ result' = [result EXCEPT ![r] = Exc]
                  /\ pc' = [pc EXCEPT ![r] = "td_stop"]
                  /\ UNCHANGED idx
             ELSE /\ outDir' = [outDir EXCEPT
                                  ![r].logs = IF out THEN @ \cup {i} ELSE @,
                                  ![r].failed = IF o # 0
                                                  THEN <<i, args[r].cmds[i], o>>
                                                  ELSE @]
                  /\ result' = [result EXCEPT ![r] = IF o # 0 THEN Ret(o) ELSE @]
                  /\ pc' = [pc EXCEPT ![r] = LoopNext(o, i, n)]
                  /\ idx' = [idx EXCEPT ![r] = IF LoopNext(o, i, n) = "cmd" THEN i + 1 ELSE @]
    /\ UNCHANGED <<args, scan, seen, slot, fd, holders, lockFile, work>>

\* (out_dir / "OK").write_text("success\n"); return 0
WriteOK(r) ==
    /\ pc[r] = "ok"
    /\ outDir' = [outDir EXCEPT ![r].ok = TRUE]
    /\ result' = [result EXCEPT ![r] = Ret(0)]
    /\ pc' = [pc EXCEPT ![r] = "td_stop"]
    /\ UNCHANGED <<args, scan, seen, slot, fd, idx, trace, holders,
                   lockFile, work>>

\* finally: await container_stop(name, lifecycle_log)  (exit status ignored)
ContainerStop(r, O) ==
    /\ pc[r] = "td_stop"
    /\ \E o \in O :
        /\ trace' = Append1(r, Ev("stop", 0, o))
        /\ pc' = [pc EXCEPT ![r] = IF o = Raised THEN "done"
                                   ELSE IF args[r].keep THEN "unlock" ELSE "td_rm"]
        /\ result' = [result EXCEPT ![r] = IF o = Raised THEN Exc ELSE @]
    /\ UNCHANGED <<args, scan, seen, slot, fd, idx, outDir, holders,
                   lockFile, work>>

\* finally: if not args.keep_workdir: rm -rf work_dir  (exit status ignored)
TeardownRm(r, O) ==
    /\ pc[r] = "td_rm"
    /\ \E o \in O :
        /\ work' = [work EXCEPT ![WorkOf(r)] = RmEffect(@, o)]
        /\ trace' = Append1(r, Ev("rm", 1, o))
        /\ pc' = [pc EXCEPT ![r] = IF o = Raised THEN "done" ELSE "unlock"]
        /\ result' = [result EXCEPT ![r] = IF o = Raised THEN Exc ELSE @]
    /\ UNCHANGED <<args, scan, seen, slot, fd, idx, outDir, holders, lockFile>>

\* finally: lk.unlock(); main ends with the pending return value or exception
Unlock(r) ==
    /\ pc[r] = "unlock"
    /\ holders' = Released(r, fd[r])
    /\ fd' = [fd EXCEPT ![r] = None]
    /\ trace' = Append1(r, Ev("unlock", 0, 0))
    /\ pc' = [pc EXCEPT ![r] = "done"]
    /\ UNCHANGED <<args, scan, seen, slot, idx, result, outDir, lockFile, work>>

\* raise SystemExit(asyncio.run(main())), 202: the process ends and the
\* kernel closes its files, which drops any flock it still holds.  What the
\* process knew is gone; its artifacts directory stays on disk, but no other
\* run reads or writes it (the run id holds the pid), so it is tracked no
\* further.
Exit(r) ==
    /\ pc[r] = "done"
    /\ pc' = [pc EXCEPT ![r] = "exited"]
    /\ holders' = [s \in Slots |-> holders[s] \ {r}]
    /\ args' = [args EXCEPT ![r] = NoArgs]
    /\ scan' = [scan EXCEPT ![r] = 1]
    /\ seen' = [seen EXCEPT ![r] = {}]
    /\ slot' = [slot EXCEPT ![r] = None]
    /\ fd' = [fd EXCEPT ![r] = None]
    /\ idx' = [idx EXCEPT ![r] = 0]
    /\ result' = [result EXCEPT ![r] = NoResult]
    /\ outDir' = [outDir EXCEPT ![r] = NoOutDir]
    /\ trace' = [trace EXCEPT ![r] = <<>>]
    /\ UNCHANGED <<lockFile, work>>

\* one step of run r, its command line drawn from A and the outcomes of
\* the external calls from O
Step(r, A, O) ==
    \/ ParseArgs(r, A)
    \/ TryLockOk(r)
    \/ TryLockBusy(r)
    \/ Sleep(r)
    \/ MkOutDir(r)
    \/ WorkspaceRm(r, O)
    \/ WorkspaceMkdir(r)
    \/ Rsync(r, O)
    \/ ContainerStart(r, O)
    \/ ContainerRun(r, O)
    \/ WriteOK(r)
    \/ ContainerStop(r, O)
    \/ TeardownRm(r, O)
    \/ Unlock(r)
    \/ Exit(r)

\* ---------------------------------------------------------------------
\* Spec: the slot pool.  The harness processes race for the slots, waiting
\* or not; each runs one command, and its external commands all succeed
\* (what an external command returns never reaches acquire_slot or SlotLock).
\* A run whose artifacts directory cannot be made ends with its lock held,
\* and the lock goes when the process does.
PoolArgs == { a \in ArgSet : ~a.keep /\ a.cmds = <<"c1">> }
PoolOutcomes == {0}

Next == \E r \in Runs : Step(r, PoolArgs, PoolOutcomes)

Spec == Init /\ [][Next]_vars

\* ---------------------------------------------------------------------
\* SpecRun: one run in full, every command line and every outcome of every
\* external call, in a pool whose slots may be held by other harness
\* processes (pid 0) and whose workspaces may hold files of earlier runs.
InitRun ==
    /\ pc = [r \in Runs |-> IF r = 1 THEN "init" ELSE "exited"]
    /\ args = [r \in Runs |-> NoArgs]
    /\ scan = [r \in Runs |-> 1]
    /\ seen = [r \in Runs |-> {}]
    /\ slot = [r \in Runs |-> None]
    /\ fd = [r \in Runs |-> None]
    /\ idx = [r \in Runs |-> 0]
    /\ result = [r \in Runs |-> NoResult]
    /\ outDir = [r \in Runs |-> NoOutDir]
    /\ trace = [r \in Runs |-> <<>>]
    /\ holders \in [Slots -> {{}, {0}}]
    /\ \E w \in {Absent, [exists |-> TRUE, content |-> {0}]} :
            work = [s \in Slots |-> w]
    /\ lockFile = [s \in Slots |-> holders[s] # {} \/ work[s].exists]

NextRun == Step(1, ArgSet, Outcomes)

SpecRun == InitRun /\ [][NextRun]_vars

\* the pool with every run started in waiting mode (no --no-wait), each run
\* being an operating-system process that keeps being scheduled: its sleep
\* ends, and every external command it awaits ends
WaitArgs == { a \in PoolArgs : a.wait }
NextWait == \E r \in Runs : Step(r, WaitArgs, PoolOutcomes)
SpecWait ==
    /\ Init
    /\ [][NextWait]_vars
    /\ \A r \in Runs : WF_vars(Step(r, WaitArgs, PoolOutcomes))

\* ---------------------------------------------------------------------
\* What the trace of a run says
Calls(r, op) ==
    LET Is(e) == e[1] = op IN SelectSeq(trace[r], Is)
RaisedIn(r) == \E i \in DOMAIN trace[r] : trace[r][i][3] = Raised
Acquired(r) == slot[r] # None
Finished(r) == pc[r] = "done"
HeldBy(r) == {s \in Slots : r \in holders[s]}

\* ---------------------------------------------------------------------
\* C1: mutual exclusion over the slot pool.  In every reachable state of
\* the racing processes no slot's lock is held by two runs, no two runs have
\* the same slot, the SlotLock of a run and the kernel's lock table agree, and
\* at most NumSlots slots are held.
C1_MutualExclusion ==
    /\ \A s \in Slots : Cardinality(holders[s]) <= 1
    /\ \A r \in Runs : HeldBy(r) = (IF fd[r] = None THEN {} ELSE {fd[r]})
    /\ \A r, q \in Runs : r # q /\ fd[r] # None => fd[r] # fd[q]
    /\ Cardinality({r \in Runs : fd[r] # None}) <= NumSlots

\* every slot is held, each by another run, while one more run is probing
C1_Witness ==
    /\ \A s \in Slots : holders[s] # {}
    /\ \E r \in Runs : pc[r] = "acquire" /\ scan[r] = NumSlots /\ HeldBy(r) = {}

\* ---------------------------------------------------------------------
\* C8: no-wait fast failure.  A run started with --no-wait never sleeps; it
\* ends without a slot only after one pass that found every slot 1..N held
\* by another run, with the no-free-slot error and without having made any
\* call of main's pipeline; and each of its probes that finds the slot busy
\* leaves the lock holders, the lock files and the workspaces as they were.
C8_State ==
    \A r \in Runs :
        /\ pc[r] = "sleep" => args[r].wait
        /\ Finished(r) /\ ~Acquired(r) =>
              /\ ~args[r].wait
              /\ {p[1] : p \in seen[r]} = Slots
              /\ \A p \in seen[r] : p[2] # r
              /\ result[r] = Exc
              /\ trace[r] = <<>>
              /\ fd[r] = None

\* C8, as one formula: the state part in every state, the probe part in
\* every step
C8_NoWaitFastFail ==
    /\ []C8_State
    /\ [][\A r \in Runs :
            pc[r] = "acquire" /\ ~args[r].wait /\ seen[r]' # seen[r] =>
                UNCHANGED <<holders, lockFile, work>>]_vars

\* a --no-wait run has failed while the others hold every slot
C8_Witness ==
    \E r \in Runs :
        /\ Finished(r) /\ ~Acquired(r) /\ ~args[r].wait
        /\ \A s \in Slots : holders[s] # {} /\ r \notin holders[s]

\* ---------------------------------------------------------------------
\* C10: lowest-index preference.  When acquire_slot has returned slot s to a
\* run, the pass that returned it probed exactly the slots 1..s-1 before s
\* and found each of them held by another run; a run that acquires while no
\* other run has started gets slot 1.
C10_LowestIndex ==
    \A r \in Runs :
        Acquired(r) =>
            /\ fd[r] = slot[r] \/ fd[r] = None
            /\ {p[1] : p \in seen[r]} = 1..(slot[r] - 1)
            /\ \A p \in seen[r] : p[2] \in Runs \ {r}
            /\ (\A q \in Runs \ {r} : pc[q] = "init") => slot[r] = 1

\* a run got slot 2 because slot 1 was held by another run when it probed it
C10_Witness ==
    \E r \in Runs : pc[r] = "mkout" /\ slot[r] = 2 /\ seen[r] # {}

\* a run alone in the pool, with several free slots, has acquired
C10_WitnessAlone ==
    \E r \in Runs :
        /\ Acquired(r) /\ NumSlots > 1
        /\ \A q \in Runs \ {r} : pc[q] = "init"

\* ---------------------------------------------------------------------
\* What a finished run did
RunCalls(r) == Calls(r, "run")
\* the run ended by success, command failure, sync failure or start failure:
\* every external call it made returned an exit status
EndedByStatus(r) == Finished(r) /\ Acquired(r) /\ ~RaisedIn(r)
\* exit statuses of the pipeline stages (sync, start, commands), in order
StageCodes(r) ==
    LET Is(e) == e[1] \in {"rsync", "start", "run"}
        s == SelectSeq(trace[r], Is)
    IN [i \in DOMAIN s |-> s[i][3]]
FirstNonzero(c) ==
    IF \A i \in DOMAIN c : c[i] = 0 THEN 0
    ELSE c[CHOOSE i \in DOMAIN c : c[i] # 0 /\ \A j \in 1..(i - 1) : c[j] = 0]
\* what the finally block did: the trace from container_stop on
Teardown(r) ==
    LET Is(e) == e[1] \in {"stop", "unlock"} \/ (e[1] = "rm" /\ e[2] = 1)
        s == SelectSeq(trace[r], Is)
    IN [i \in DOMAIN s |-> s[i][1]]

\* ---------------------------------------------------------------------
\* C2: guaranteed lock release.  When main has finished in a run that
\* acquired a slot, SlotLock.unlock has run and the run no longer holds the
\* slot's lock, however the run ended.
C2_ReleasedWhenMainEnds ==
    \A r \in Runs :
        Finished(r) /\ Acquired(r) =>
            /\ fd[r] = None
            /\ HeldBy(r) = {}
            /\ Len(Calls(r, "unlock")) = 1

\* ---------------------------------------------------------------------
\* C3: workspace reset after a run.  When a run without --keep-workdir has
\* ended by success, command failure, sync failure or start failure, its
\* slot's workspace is absent or empty, whatever rm returned in teardown.
C3_WorkspaceReset ==
    \A r \in Runs :
        EndedByStatus(r) /\ ~args[r].keep =>
            \/ ~work[slot[r]].exists
            \/ work[slot[r]].content = {}

\* ---------------------------------------------------------------------
\* C4: sentinel exclusivity and totality.  When a run has ended by success,
\* command failure, sync failure or start failure, its artifacts directory
\* holds exactly one of OK and FAILED.
C4_ExactlyOneSentinel ==
    \A r \in Runs :
        EndedByStatus(r) => (outDir[r].ok # (outDir[r].failed # <<>>))

\* ---------------------------------------------------------------------
\* C5: fail-fast command execution.  The commands are invoked in index order
\* 1, 2, ..; once command k has returned a nonzero exit status it is the last
\* command invoked, no cmd log with an index above k exists, and FAILED
\* records k, the text of command k and that exit status.
C5_FailFast ==
    \A r \in Runs :
        LET c == RunCalls(r) IN
        /\ \A j \in DOMAIN c : c[j][2] = j /\ j <= Len(args[r].cmds)
        /\ \A j \in DOMAIN c : j < Len(c) => c[j][3] = 0
        /\ outDir[r].logs \subseteq 1..Len(c)
        /\ \A k \in DOMAIN c :
              c[k][3] \notin {0, Raised} =>
                  /\ Len(c) = k
                  /\ outDir[r].logs \subseteq 1..k
                  /\ outDir[r].failed = <<k, args[r].cmds[k], c[k][3]>>
                  /\ pc[r] \notin {"cmd", "ok"}
                  /\ ~outDir[r].ok

\* the first of at least two commands failed and the run has ended
C5_Witness ==
    \E r \in Runs :
        /\ Finished(r) /\ Len(args[r].cmds) >= 2
        /\ Len(RunCalls(r)) = 1 /\ RunCalls(r)[1][3] = 2
        /\ outDir[r].failed = <<1, args[r].cmds[1], 2>>

\* ---------------------------------------------------------------------
\* C6: teardown order and completeness.  In a run that reached teardown,
\* the finally block has, when main ends, stopped the container, removed the
\* workspace (unless --keep-workdir) and released the lock, in this order,
\* also when a teardown step failed or raised.
C6_TeardownComplete ==
    \A r \in Runs :
        Finished(r) /\ Len(Calls(r, "stop")) > 0 =>
            Teardown(r) = (IF args[r].keep THEN <<"stop", "unlock">>
                           ELSE <<"stop", "rm", "unlock">>)

\* ---------------------------------------------------------------------
\* C7: run exit code.  The exit status of a run that made all its calls is 0
\* when every stage and command returned 0, and otherwise the exit status of
\* the first stage or command that returned nonzero; it is 1 for an internal
\* error only.
C7_ExitCode ==
    \A r \in Runs :
        EndedByStatus(r) => ExitStatus(r) = FirstNonzero(StageCodes(r))

\* ---------------------------------------------------------------------
\* C9: synchronization-failure path.  When rsync has returned a nonzero exit
\* status and main has ended, container start and the commands were never
\* invoked, container stop was invoked once, and the slot lock is released.
C9_SyncFailurePath ==
    \A r \in Runs :
        LET s == Calls(r, "rsync") IN
        Finished(r) /\ Len(s) = 1 /\ s[1][3] \notin {0, Raised} =>
            /\ Len(Calls(r, "start")) = 0
            /\ Len(RunCalls(r)) = 0
            /\ Len(Calls(r, "stop")) = 1
            /\ HeldBy(r) = {}

\* ---------------------------------------------------------------------
\* C11: waiting mode never gives up.  A run started without --no-wait never
\* ends without a slot; a pass of it that found every slot busy ends in the
\* sleep, and the sleep is followed by a fresh pass from slot 1, every time;
\* and when acquire_slot returns a slot the run holds that slot's lock.
C11_State ==
    \A r \in Runs :
        /\ Finished(r) /\ args[r].wait => Acquired(r)
        /\ pc[r] = "sleep" =>
              /\ args[r].wait
              /\ {p[1] : p \in seen[r]} = Slots
              /\ HeldBy(r) = {}
        /\ pc[r] = "mkout" => holders[slot[r]] = {r} /\ fd[r] = slot[r]

C11_WaitNeverGivesUp ==
    /\ []C11_State
    /\ [][\A r \in Runs :
            /\ pc[r] = "acquire" /\ args[r].wait /\ pc[r]' # "acquire" =>
                  \/ pc[r]' = "sleep" /\ ~Acquired(r)'
                  \/ pc[r]' = "mkout" /\ r \in holders'[slot'[r]]
            /\ pc[r] = "sleep" /\ pc[r]' # "sleep" =>
                  pc[r]' = "acquire" /\ scan[r]' = 1 /\ seen[r]' = {}]_vars

\* a waiting run sleeps after a pass that found every slot held by others
C11_Witness ==
    \E r \in Runs :
        /\ pc[r] = "sleep" /\ args[r].wait
        /\ \A s \in Slots : holders[s] # {} /\ r \notin holders[s]

\* ---------------------------------------------------------------------
\* position of a call in the pipeline of main (163-198): acquire, artifacts
\* directory, workspace removal, workspace creation, sync, container start,
\* commands, and the finally block last
StageRank(e) ==
    CASE e[1] = "acquire" -> 1
      [] e[1] = "mkout" -> 2
      [] e[1] = "rm" /\ e[2] = 0 -> 3
      [] e[1] = "mkdir" -> 4
      [] e[1] = "rsync" -> 5
      [] e[1] = "start" -> 6
      [] e[1] = "run" -> 7
      [] OTHER -> 8
InTeardown(r) == pc[r] \in {"td_stop", "td_rm", "unlock", "done"}

\* C12: pipeline stage ordering.  In a run the calls happen only in the
\* order slot acquired, workspace prepared, sync, container start, commands
\* (command k is the k-th command call), each stage at most once and only
\* after the stage before it; no command is invoked unless container start
\* returned 0, container start is not invoked unless sync returned 0, and
\* after a container start that did not return 0 no command is invoked and
\* the run is in its teardown.
C12_StageOrder ==
    \A r \in Runs :
        LET t == trace[r]
            Rc(op) == {t[i][3] : i \in {k \in DOMAIN t : t[k][1] = op}}
        IN
        /\ \A i \in 1..(Len(t) - 1) :
              /\ StageRank(t[i]) <= StageRank(t[i + 1])
              /\ StageRank(t[i]) = StageRank(t[i + 1]) => StageRank(t[i]) >= 7
        /\ \A k \in DOMAIN RunCalls(r) : RunCalls(r)[k][2] = k
        /\ t # <<>> => t[1][1] = "acquire"
        /\ Rc("mkdir") # {} => Rc("mkout") = {0}
        /\ Rc("rsync") # {} => Rc("mkdir") # {}
        /\ Rc("start") # {} => Rc("rsync") = {0}
        /\ Rc("run") # {} => Rc("start") = {0}
        /\ Rc("start") \ {0} # {} => Rc("run") = {} /\ InTeardown(r)
        /\ Rc("rsync") \ {0} # {} => Rc("start") = {} /\ InTeardown(r)

\* a run whose container start returned a nonzero exit status has ended
\* after its teardown without having invoked any of its commands
C12_Witness ==
    \E r \in Runs :
        /\ Finished(r) /\ Len(args[r].cmds) = MaxCmds
        /\ Calls(r, "start") # <<>> /\ Calls(r, "start")[1][3] \in {1, 2}
        /\ RunCalls(r) = <<>>
        /\ Teardown(r) # <<>>

\* ---------------------------------------------------------------------
\* the run is at a call of main that reads or writes its slot's workspace or
\* drives its slot's container (173-197)
AtSlotWork(r) ==
    pc[r] \in {"prep", "mkdir", "sync", "start", "cmd", "ok", "td_stop", "td_rm"}

\* C13: workspace ownership under the lock.  Among the racing runs, a run that
\* is at any workspace or container action (workspace removal and recreation,
\* sync, container start, commands, container stop, teardown removal) is the
\* one holder of its slot's lock; a run
\* makes no call after its unlock; and every step that changes a slot's
\* workspace is a step of the run that holds that slot's lock before and after
\* it.
C13_Owner ==
    \A r \in Runs :
        /\ AtSlotWork(r) =>
              Acquired(r) /\ holders[slot[r]] = {r}
        /\ \A i \in DOMAIN trace[r] :
              trace[r][i][1] = "unlock" => i = Len(trace[r])

C13_WorkspaceOwnership ==
    /\ []C13_Owner
    /\ [][\A s \in Slots :
            work[s]' # work[s] =>
                \E r \in Runs :
                    /\ trace[r]' # trace[r]
                    /\ slot[r] = s
                    /\ holders[s] = {r} /\ holders[s]' = {r}]_vars

\* two runs work at the same time, each in its own slot's workspace, while a
\* third run waits for a slot
C13_Witness ==
    \E r, q \in Runs :
        /\ r # q /\ slot[r] # slot[q]
        /\ pc[r] = "td_rm" /\ work[slot[r]].content # {}
        /\ pc[q] = "sync"
        /\ \E w \in Runs \ {r, q} : pc[w] \in {"acquire", "sleep"} /\ seen[w] # {}

\* ---------------------------------------------------------------------
\* C14: OK sentinel meaning.  Whenever a run's OK file exists, its sync
\* returned 0, its container start returned 0, every one of its n commands
\* was invoked and returned 0, no FAILED file exists, and the run, once it has
\* ended, has returned 0.
C14_OKMeaning ==
    \A r \in Runs :
        outDir[r].ok =>
            /\ Calls(r, "rsync") = <<Ev("rsync", 0, 0)>>
            /\ Calls(r, "start") = <<Ev("start", 0, 0)>>
            /\ Len(RunCalls(r)) = Len(args[r].cmds)
            /\ \A k \in DOMAIN RunCalls(r) : RunCalls(r)[k] = Ev("run", k, 0)
            /\ outDir[r].failed = <<>>
            /\ Finished(r) => result[r] = Ret(0) /\ ExitStatus(r) = 0

\* ---------------------------------------------------------------------
\* C15: clean workspace before sync.  When a run is about to start the
\* synchronizer, its slot's workspace directory exists and holds nothing of
\* an earlier run, whatever the rm that cleared it returned.
C15_CleanBeforeSync ==
    \A r \in Runs :
        pc[r] = "sync" =>
            /\ work[WorkOf(r)].exists
            /\ work[WorkOf(r)].content = {}

\* ---------------------------------------------------------------------
\* C16: lock handle discipline.  A try_lock that returns true found the slot
\* free and leaves the run as its one holder with the handle kept; a try_lock
\* that returns false found the slot held, keeps no handle and leaves every
\* lock as it was; unlock releases the caller's lock and nothing else, and
\* called without a handle (not locked, or already unlocked) it changes
\* nothing, so that a second unlock leaves the state of the first and never
\* releases a lock another run holds.
C16_State ==
    \A r \in Runs :
        /\ fd[r] # None => r \in holders[fd[r]]
        /\ fd[r] = None => Released(r, fd[r]) = holders
        /\ fd[r] # None =>
              \A s \in Slots :
                  Released(r, fd[r])[s] =
                      IF s = fd[r] THEN holders[s] \ {r} ELSE holders[s]

C16_LockHandle ==
    /\ []C16_State
    /\ [][\A r \in Runs :
            \* try_lock returned true
            /\ fd[r] = None /\ fd[r]' # None =>
                  /\ holders[fd[r]'] = {}
                  /\ holders' = [holders EXCEPT ![fd[r]'] = {r}]
            \* try_lock returned false
            /\ pc[r] = "acquire" /\ seen[r]' # seen[r] /\ seen[r]' # {} =>
                  /\ fd[r]' = None
                  /\ holders' = holders
                  /\ \E p \in seen[r]' \ seen[r] :
                        p[2] \in holders[p[1]] /\ p[2] # r
            \* unlock
            /\ pc[r] = "unlock" /\ pc[r]' = "done" =>
                  /\ fd[r]' = None
                  /\ \A s \in Slots :
                        holders[s]' =
                            IF s = fd[r] THEN holders[s] \ {r} ELSE holders[s]]_vars

\* a run has unlocked its slot and another run holds that slot's lock now: a
\* second unlock of the first run would find no handle
C16_Witness ==
    \E r, q \in Runs :
        /\ r # q
        /\ pc[r] = "done" /\ Calls(r, "unlock") # <<>> /\ fd[r] = None
        /\ holders[slot[r]] = {q} /\ fd[q] = slot[r]

\* ---------------------------------------------------------------------
\* C17: a run holds at most one slot lock.  In every reachable state each run
\* holds no lock or one; while it scans or sleeps in acquire_slot it holds
\* none and keeps no handle of a slot it found busy; from the return of
\* acquire_slot until unlock it holds the lock of the returned slot and no
\* other; and a run that ended with the no-free-slot error holds no lock and
\* has made no call at all: no container stop, no workspace removal, no
\* artifacts directory.
C17_AtMostOneLock ==
    \A r \in Runs :
        /\ Cardinality(HeldBy(r)) <= 1
        /\ fd[r] # None => HeldBy(r) = {fd[r]}
        /\ pc[r] \in {"acquire", "sleep"} =>
              HeldBy(r) = {} /\ fd[r] = None /\ ~Acquired(r)
        /\ (Acquired(r) /\ (AtSlotWork(r) \/ pc[r] \in {"mkout", "unlock"})) =>
              HeldBy(r) = {slot[r]} /\ fd[r] = slot[r]
        /\ Finished(r) /\ ~Acquired(r) =>
              /\ HeldBy(r) = {} /\ fd[r] = None
              /\ trace[r] = <<>>
              /\ outDir[r] = NoOutDir
              /\ result[r] = Exc

\* a run ended with the no-free-slot error after probing every slot, while
\* other runs hold all the slots and work in them
C17_Witness ==
    \E r \in Runs :
        /\ Finished(r) /\ ~Acquired(r) /\ ~args[r].wait
        /\ {p[1] : p \in seen[r]} = Slots
        /\ \A s \in Slots : \E q \in Runs \ {r} : holders[s] = {q} /\ AtSlotWork(q)

\* ---------------------------------------------------------------------
\* C18: waiters are eventually served.  With every run started in waiting
\* mode and every run's steps weakly fair, every run eventually acquires a
\* slot, a run that scans or sleeps in acquire_slot does not do so forever,
\* every run eventually has exited with its lock released for good, and as
\* long as some run has not exited some run can take a step.
C18_WaitersServed ==
    /\ \A r \in Runs : <>Acquired(r)
    /\ \A r \in Runs : (pc[r] \in {"acquire", "sleep"}) ~> Acquired(r)
    /\ \A r \in Runs : <>[](pc[r] = "exited" /\ HeldBy(r) = {})
    /\ []((\E r \in Runs : pc[r] # "exited") => ENABLED NextWait)

\* a run still sleeps in acquire_slot after a pass that found every slot
\* busy, while the runs that held the slots have exited and every slot is free
C18_Witness ==
    \E r \in Runs :
        /\ pc[r] = "sleep"
        /\ \A q \in Runs \ {r} : pc[q] = "exited"
        /\ \A s \in Slots : holders[s] = {}

====
